---- MODULE Spec2Model ----
(***************************************************************************)
(* A model of @stdlib/array-base-count-if (src/lib/main.js).               *)
(*                                                                         *)
(* countIf( x, predicate, thisArg ) dispatches on the representation of x  *)
(* (isAccessorArray) to one of two linear scans, `indexed` and             *)
(* `accessors`.  Each scan is modelled one loop iteration per step, so     *)
(* that the order of the predicate invocations, the propagation of a       *)
(* failure and the frame of the scan are visible in the behaviours.        *)
(***************************************************************************)
EXTENDS Integers, Sequences, FiniteSets

VARIABLES
    x,          \* the collection passed to countIf (main.js:119)
    predicate,  \* the predicate passed to countIf (main.js:119)
    thisArg,    \* the execution context passed to countIf (main.js:119)
    pc,         \* position in countIf / indexed / accessors
    get,        \* `get` of accessors (main.js:83,87)
    i,          \* `i` of the running scan (main.js:50,85)
    n,          \* `n` of the running scan (main.js:49,84)
    calls,      \* the predicate invocations made so far, in order
    result,     \* <<>> until countIf returns, then <<n>>
    error,      \* what countIf threw to its caller, "none" otherwise
    input,      \* the collection as it was when countIf was called
    thisArg0,   \* the context as it was when countIf was called
    round,      \* 1: the first call; 2: the call on toAccessorArray( x )
    first       \* <<>>, or the outcome of the first call

vars == <<x, predicate, thisArg, pc, get, i, n, calls, result, error,
          input, thisArg0, round, first>>

\* ------------------------------------------------------------------ bounds

\* longest plain / int32 / wrapped collection enumerated
MaxLen == 3

\* most complex elements of an enumerated complex128 collection
MaxComplexLen == 2

\* ------------------------------------------------------------ JS values

Num(k) == [type |-> "number", re |-> k, im |-> 0]

Bool(b) == [type |-> "boolean", re |-> IF b THEN 1 ELSE 0, im |-> 0]

Complex128(a, b) == [type |-> "complex128", re |-> a, im |-> b]

Undefined == [type |-> "undefined", re |-> 0, im |-> 0]

\* the abstract operation ToBoolean applied by `if ( ... )`
ToBoolean(v) ==
    CASE v.type = "boolean" -> v.re = 1
      [] v.type = "number" -> v.re # 0
      [] v.type = "undefined" -> FALSE
      [] OTHER -> TRUE

\* `value > 0`: an object compares as NaN, which is never greater
GreaterThanZero(v) == v.type = "number" /\ v.re > 0

\* ------------------------------------------------------------ collections

RECURSIVE SeqsOfLen(_, _)
SeqsOfLen(S, k) ==
    IF k = 0 THEN {<<>>}
    ELSE {Append(s, e) : s \in SeqsOfLen(S, k - 1), e \in S}

SeqsUpTo(S, k) == UNION {SeqsOfLen(S, m) : m \in 0..k}

Elems == {-1, 0, 1}

Parts == {0, 1}

IndexedKinds == {"generic", "int32"}

Collection(kind, buf) == [ref |-> 1, kind |-> kind, buf |-> buf]

\* the arrays the tests and the README pass
Fixtures ==
    {Collection("generic", <<0, 1, 0, 1, 2>>),
     Collection("int32", <<0, 1, 0, 1, 2>>),
     Collection("complex128", <<0, 0, 1, 0, 3, 4, 0, 5>>)}

Collections ==
    {Collection(k, b) : k \in IndexedKinds \cup {"accessor"},
                        b \in SeqsUpTo(Elems, MaxLen)}
    \cup {Collection("complex128", b) :
            b \in UNION {SeqsOfLen(Parts, 2 * m) : m \in 0..MaxComplexLen}}
    \cup Fixtures

\* x.length
Length(a) ==
    IF a.kind = "complex128" THEN Len(a.buf) \div 2 ELSE Len(a.buf)

\* x[ i ]: an own indexed property of a plain or typed array only
IndexedElement(a, k) ==
    IF a.kind \in IndexedKinds /\ k + 1 \in 1..Len(a.buf)
    THEN Num(a.buf[k + 1])
    ELSE Undefined

\* an object with `get` and `set` methods
isAccessorArray(a) == a.kind \in {"accessor", "complex128"}

resolveGetter(a) ==
    CASE a.kind = "complex128" -> "complex128"
      [] a.kind = "accessor" -> "default"
      [] OTHER -> a.kind

\* get( x, i ) for the getter resolved by resolveGetter
Getter(g, a, k) ==
    CASE g = "complex128" ->
            IF k \in 0..(Length(a) - 1)
            THEN Complex128(a.buf[2 * k + 1], a.buf[2 * k + 2])
            ELSE Undefined
      [] g = "default" ->
            IF k \in 0..(Length(a) - 1) THEN Num(a.buf[k + 1]) ELSE Undefined
      [] OTHER -> IndexedElement(a, k)

toAccessorArray(a) == [ref |-> a.ref + 1, kind |-> "accessor", buf |-> a.buf]

\* ------------------------------------------------------------- predicates

NoThis == [provided |-> FALSE, count |-> 0]

ThisArgs == {NoThis} \cup {[provided |-> TRUE, count |-> c] : c \in {0, 2}}

PurePredicates ==
    {"positive", "counter", "isZero", "identity", "index", "always",
     "bothPositive", "throwsOnNegative", "notCallable"}

Predicates == PurePredicates \cup {"pop"}

IsCallable(p) == p # "notCallable"

Returns(v, t, a) ==
    [threw |-> FALSE, err |-> "none", ret |-> v, this |-> t, arr |-> a]

Throws(e, t, a) ==
    [threw |-> TRUE, err |-> e, ret |-> Bool(FALSE), this |-> t, arr |-> a]

\* predicate.call( t, v, k, a ) for a callable predicate
Call(p, t, v, k, a) ==
    CASE p = "positive" -> Returns(Bool(GreaterThanZero(v)), t, a)
      [] p = "counter" ->
            IF t.provided
            THEN Returns(Bool(GreaterThanZero(v)),
                         [t EXCEPT !.count = @ + 1], a)
            ELSE Throws("TypeError", t, a)
      [] p = "isZero" -> Returns(Bool(v.type = "number" /\ v.re = 0), t, a)
      [] p = "identity" -> Returns(v, t, a)
      [] p = "index" -> Returns(Num(k), t, a)
      [] p = "always" -> Returns(Bool(TRUE), t, a)
      [] p = "bothPositive" ->
            Returns(Bool(v.type = "complex128" /\ v.re > 0 /\ v.im > 0), t, a)
      [] p = "throwsOnNegative" ->
            IF v.type = "number" /\ v.re < 0
            THEN Throws("Error", t, a)
            ELSE Returns(Bool(GreaterThanZero(v)), t, a)
      [] p = "pop" ->
            IF a.kind = "generic"
            THEN Returns(Bool(TRUE), t,
                         [a EXCEPT !.buf = SubSeq(@, 1, Len(@) - 1)])
            ELSE Throws("TypeError", t, a)

\* ----------------------------------------------------------------- state

InitWith(P) ==
    /\ x \in Collections
    /\ predicate \in P
    /\ thisArg \in ThisArgs
    /\ pc = "call"
    /\ get = "none"
    /\ i = 0
    /\ n = 0
    /\ calls = <<>>
    /\ result = <<>>
    /\ error = "none"
    /\ input = x
    /\ thisArg0 = thisArg
    /\ round = 1
    /\ first = <<>>

Init == InitWith(PurePredicates)

InitMut == InitWith(Predicates)

\* ---------------------------------------------------------------- actions

\* a countIf without the dispatch
countIf_AlwaysIndexed ==
    /\ pc = "call"
    /\ pc' = "indexed"
    /\ UNCHANGED <<x, predicate, thisArg, get, i, n, calls, result, error,
                   input, thisArg0, round, first>>

\* countIf: the dispatch on the representation
countIf ==
    /\ pc = "call"
    /\ pc' = IF isAccessorArray(x) THEN "accessors" ELSE "indexed"
    /\ UNCHANGED <<x, predicate, thisArg, get, i, n, calls, result, error,
                   input, thisArg0, round, first>>

\* an invocation that hands the predicate the wrapped buffer, not x
Invocation_Unwrapped(t, v, k, a) ==
    [this |-> t, value |-> v, index |-> k,
     arr |-> [ref |-> 0, kind |-> "generic", buf |-> a.buf]]

\* an invocation that does not bind the context
Invocation_Unbound(t, v, k, a) ==
    [this |-> NoThis, value |-> v, index |-> k, arr |-> a]

\* the arguments of one predicate invocation
Invocation(t, v, k, a) ==
    [this |-> t, value |-> v, index |-> k, arr |-> a]

\* predicate.call( thisArg, v, i, x ): a TypeError when predicate is not
\* callable, the predicate's own outcome and effects otherwise
Invoke(v) ==
    IF ~IsCallable(predicate)
    THEN [called |-> FALSE, entry |-> <<>>, threw |-> TRUE,
          err |-> "TypeError", ret |-> Undefined, this |-> thisArg, arr |-> x]
    ELSE LET a == Invocation(thisArg, v, i, x)
             o == Call(predicate, a.this, a.value, a.index, a.arr)
         IN [called |-> TRUE,
             entry |-> <<[this |-> a.this, value |-> a.value,
                          index |-> a.index, arr |-> a.arr,
                          threw |-> o.threw, ret |-> o.ret]>>,
             threw |-> o.threw, err |-> o.err, ret |-> o.ret,
             this |-> IF a.this = thisArg THEN o.this ELSE thisArg,
             arr |-> IF a.arr = x THEN o.arr ELSE x]

\* a tally outside the `if`
Tally_Unconditional(m, r) == m + 1

\* a tally that counts only the boolean true
Tally_StrictTrue(m, r) == IF r = Bool(TRUE) THEN m + 1 ELSE m

\* n after an invocation that returned r
Tally(m, r) == IF ToBoolean(r) THEN m + 1 ELSE m

\* a loop that catches what the predicate throws and moves on
Completion_Swallow(o) ==
    IF o.threw
    THEN [pc |-> pc, error |-> error, i |-> i + 1, n |-> n]
    ELSE [pc |-> pc, error |-> error, i |-> i + 1, n |-> Tally(n, o.ret)]

\* what the loop does with the outcome of the invocation: an exception
\* leaves the function, a return value is tested and i is incremented
Completion(o) ==
    IF o.threw
    THEN [pc |-> "threw", error |-> o.err, i |-> i, n |-> n]
    ELSE [pc |-> pc, error |-> error, i |-> i + 1, n |-> Tally(n, o.ret)]

\* `if ( predicate.call( thisArg, v, i, x ) ) { n += 1; }` and `i++`
Test(v) ==
    LET o == Invoke(v)
        c == Completion(o)
    IN /\ calls' = calls \o o.entry
       /\ thisArg' = o.this
       /\ x' = o.arr
       /\ pc' = c.pc
       /\ error' = c.error
       /\ i' = c.i
       /\ n' = c.n

\* a loop test against the length read once, before the loop
LoopTest_Cached(k, a) == k < Length(input)

\* a loop test that admits i = x.length
LoopTest_Inclusive(k, a) == k <= Length(a)

\* a loop test that stops one element early
LoopTest_StopEarly(k, a) == k < Length(a) - 1

\* `i < x.length`
LoopTest(k, a) == k < Length(a)

indexed_begin ==
    /\ pc = "indexed"
    /\ n' = 0
    /\ i' = 0
    /\ pc' = "indexed_loop"
    /\ UNCHANGED <<x, predicate, thisArg, get, calls, result, error,
                   input, thisArg0, round, first>>

indexed_iter ==
    /\ pc = "indexed_loop"
    /\ LoopTest(i, x)
    /\ Test(IndexedElement(x, i))
    /\ UNCHANGED <<predicate, get, result, input, thisArg0, round, first>>

\* a return that empties the array it scanned
indexed_return_Emptying ==
    /\ pc = "indexed_loop"
    /\ ~LoopTest(i, x)
    /\ result' = <<n>>
    /\ pc' = "done"
    /\ x' = [x EXCEPT !.buf = <<>>]
    /\ UNCHANGED <<predicate, thisArg, get, i, n, calls, error,
                   input, thisArg0, round, first>>

indexed_return ==
    /\ pc = "indexed_loop"
    /\ ~LoopTest(i, x)
    /\ result' = <<n>>
    /\ pc' = "done"
    /\ UNCHANGED <<x, predicate, thisArg, get, i, n, calls, error,
                   input, thisArg0, round, first>>

accessors_begin ==
    /\ pc = "accessors"
    /\ get' = resolveGetter(x)
    /\ n' = 0
    /\ i' = 0
    /\ pc' = "accessors_loop"
    /\ UNCHANGED <<x, predicate, thisArg, calls, result, error,
                   input, thisArg0, round, first>>

\* an accessor scan that reads x[ i ] instead of get( x, i )
accessors_iter_DirectIndex ==
    /\ pc = "accessors_loop"
    /\ LoopTest(i, x)
    /\ Test(IndexedElement(x, i))
    /\ UNCHANGED <<predicate, get, result, input, thisArg0, round, first>>

accessors_iter ==
    /\ pc = "accessors_loop"
    /\ LoopTest(i, x)
    /\ Test(Getter(get, x, i))
    /\ UNCHANGED <<predicate, get, result, input, thisArg0, round, first>>

accessors_return ==
    /\ pc = "accessors_loop"
    /\ ~LoopTest(i, x)
    /\ result' = <<n>>
    /\ pc' = "done"
    /\ UNCHANGED <<x, predicate, thisArg, get, i, n, calls, error,
                   input, thisArg0, round, first>>

\* the caller repeats the call on toAccessorArray of the same elements,
\* with a fresh context
again ==
    /\ pc \in {"done", "threw"}
    /\ round = 1
    /\ ~isAccessorArray(input)
    /\ first' = <<[pc |-> pc, result |-> result, error |-> error,
                   calls |-> calls, thisArg |-> thisArg]>>
    /\ x' = toAccessorArray(input)
    /\ input' = x'
    /\ thisArg' = thisArg0
    /\ pc' = "call"
    /\ get' = "none"
    /\ i' = 0
    /\ n' = 0
    /\ calls' = <<>>
    /\ result' = <<>>
    /\ error' = "none"
    /\ round' = 2
    /\ UNCHANGED <<predicate, thisArg0>>

Next ==
    \/ countIf
    \/ indexed_begin
    \/ indexed_iter
    \/ indexed_return
    \/ accessors_begin
    \/ accessors_iter
    \/ accessors_return
    \/ again

Spec == Init /\ [][Next]_vars

SpecMut == InitMut /\ [][Next]_vars

\* the call is synchronous and single-threaded: a step that can be taken is
\* taken
SpecMutFair == InitMut /\ [][Next]_vars /\ WF_vars(Next)

\* ----------------------------------------------------------------- claims

\* the k-th element (from 0) of the sequence a collection represents
ElementAt(a, k) ==
    IF a.kind = "complex128"
    THEN Complex128(a.buf[2 * k + 1], a.buf[2 * k + 2])
    ELSE Num(a.buf[k + 1])

Indices(a) == 0..(Length(a) - 1)

\* what the predicate answers for element k of the input
Answer(k) == Call(predicate, thisArg0, ElementAt(input, k), k, input)

Passing == {k \in Indices(input) : ToBoolean(Answer(k).ret)}

Returned == pc = "done" /\ Len(result) = 1

Pairs(log) == [j \in 1..Len(log) |-> <<log[j].value, log[j].index>>]

Finished == pc \in {"done", "threw"}

\* C2: the call on the plain-indexed collection and the call on the accessor
\* collection of the same elements end the same way, return the same count
\* and invoke the predicate with the same (value, index) pairs in the same
\* order.
C2_StrategiesAgree ==
    (round = 2 /\ Finished) =>
        /\ first[1].pc = pc
        /\ first[1].result = result
        /\ first[1].error = error
        /\ Pairs(first[1].calls) = Pairs(calls)

C2_Witness ==
    /\ round = 2
    /\ Returned
    /\ get = "default"
    /\ input.buf = <<0, 1, -1>>
    /\ predicate = "positive"
    /\ result = <<1>>
    /\ Len(calls) = 3

\* C3: with a thisArg, every invocation runs with thisArg as its context and
\* the predicate is invoked once per element whatever it returns: the
\* counting predicate leaves this.count at its initial value plus the length
\* of the collection, under both strategies.
C3_ContextBound ==
    thisArg0.provided =>
        /\ \A j \in 1..Len(calls) : calls[j].this.provided
        /\ (predicate = "counter" /\ Finished) =>
              /\ pc = "done"
              /\ Len(calls) = Length(input)
              /\ \A j \in 1..Len(calls) :
                    calls[j].this.count = thisArg0.count + j - 1
              /\ thisArg.count = thisArg0.count + Length(input)

\* both strategies: the indexed call ended with count 2 + 3 and so did the
\* accessor call that followed
C3_Witness ==
    /\ round = 2
    /\ Returned
    /\ predicate = "counter"
    /\ thisArg0.count = 2
    /\ Length(input) = 3
    /\ thisArg.count = 5
    /\ first[1].thisArg.count = 5
    /\ result = <<1>>

\* C4: for a collection of length 0 of any representation countIf returns 0
\* and never invokes the predicate, so that a predicate that would throw or
\* is not callable causes no failure.
C4_EmptyIsZero ==
    Length(input) = 0 =>
        /\ calls = <<>>
        /\ pc # "threw"
        /\ error = "none"
        /\ Finished => result = <<0>>

\* a predicate that is not callable: 0 for the empty plain array and 0 for
\* the empty accessor array
C4_Witness ==
    /\ round = 2
    /\ Returned
    /\ Length(input) = 0
    /\ predicate = "notCallable"
    /\ first[1].pc = "done"
    /\ first[1].result = <<0>>
    /\ result = <<0>>

C4_WitnessComplex ==
    /\ Returned
    /\ input = Collection("complex128", <<>>)
    /\ predicate = "counter"
    /\ ~thisArg0.provided
    /\ result = <<0>>

AllAnswer(b) ==
    \A k \in Indices(input) : ~Answer(k).threw /\ Answer(k).ret = Bool(b)

\* C5: if the predicate returns true for every element, countIf returns
\* the length of x, under both strategies.
C5_AllPass ==
    (Finished /\ IsCallable(predicate) /\ AllAnswer(TRUE)) =>
        /\ pc = "done"
        /\ result = <<Length(input)>>

C5_Witness ==
    /\ round = 2
    /\ Returned
    /\ predicate = "positive"
    /\ input.buf = <<1, 1, 1>>
    /\ AllAnswer(TRUE)
    /\ first[1].result = <<3>>
    /\ result = <<3>>

\* C6: if the predicate returns false for every element, countIf returns
\* 0, under both strategies.
C6_NonePass ==
    (Finished /\ IsCallable(predicate) /\ AllAnswer(FALSE)) =>
        /\ pc = "done"
        /\ result = <<0>>

C6_Witness ==
    /\ round = 2
    /\ Returned
    /\ predicate = "positive"
    /\ input.buf = <<0, -1, 0>>
    /\ AllAnswer(FALSE)
    /\ first[1].result = <<0>>
    /\ result = <<0>>

\* C7: every invocation receives (value, index, arr), arr being the very
\* collection passed to countIf, index the position and value the element
\* at that position; the invocations run over 0, 1, ..., length-1 in
\* ascending order, none skipped and none repeated.
C7_ArgumentsInOrder ==
    /\ \A j \in 1..Len(calls) :
          /\ j <= Length(input)
          /\ calls[j].index = j - 1
          /\ calls[j].value = ElementAt(input, j - 1)
          /\ calls[j].arr = input
    /\ Returned => Len(calls) = Length(input)

C7_Witness ==
    /\ Returned
    /\ input = Collection("int32", <<1, 0, -1>>)
    /\ predicate = "index"
    /\ Len(calls) = 3
    /\ calls[3].index = 2
    /\ calls[3].value = Num(-1)
    /\ calls[3].arr = input
    /\ result = <<2>>

ComplexFixture == Collection("complex128", <<0, 0, 1, 0, 3, 4, 0, 5>>)

\* C8: an accessor-style collection takes the accessor strategy and is read
\* through the getter resolved for its layout: a complex array of 2n
\* interleaved numbers has length n, the predicate is invoked n times, the
\* i-th time with (re_i, im_i), and [(0,0),(1,0),(3,4),(0,5)] with a
\* predicate requiring both parts positive yields 1.
C8_AccessorStrategy ==
    input.kind \in {"accessor", "complex128"} =>
        /\ pc \notin {"indexed", "indexed_loop"}
        /\ pc \in {"accessors_loop", "done", "threw"} =>
              get = resolveGetter(input)
        /\ input.kind = "complex128" =>
              /\ 2 * Length(input) = Len(input.buf)
              /\ \A j \in 1..Len(calls) :
                    calls[j].value =
                        Complex128(input.buf[2 * j - 1], input.buf[2 * j])
              /\ Returned => Len(calls) = Length(input)
              /\ (Returned /\ input = ComplexFixture
                    /\ predicate = "bothPositive") => result = <<1>>

C8_Witness ==
    /\ Returned
    /\ input = ComplexFixture
    /\ predicate = "bothPositive"
    /\ get = "complex128"
    /\ Len(calls) = 4
    /\ calls[3].value = Complex128(3, 4)
    /\ result = <<1>>

\* one step of a call wrote the collection / the context
WroteCollection == round' = round /\ x' # x

WroteContext == round' = round /\ thisArg' # thisArg

InvokedOnce == Len(calls') = Len(calls) + 1

\* what a step may change besides the scan's own variables
FrameOfStep ==
    /\ WroteCollection =>
          /\ predicate = "pop"
          /\ InvokedOnce
          /\ x' = Call(predicate, thisArg, ElementAt(x, i), i, x).arr
    /\ WroteContext =>
          /\ predicate = "counter"
          /\ InvokedOnce
          /\ thisArg' = [thisArg EXCEPT !.count = @ + 1]
    /\ round' = round => input' = input
    /\ predicate' = predicate
    /\ thisArg0' = thisArg0

\* C9: countIf never writes the collection: with a predicate that does not
\* modify it the collection is at every step, and after the call, what it
\* was before the call; any change of the collection or of thisArg is the
\* effect of one predicate invocation, and the predicate and the caller's
\* record of the input are never touched.
C9_ReadOnlyScan ==
    /\ [](predicate # "pop" => x = input)
    /\ [][FrameOfStep]_vars

C9_Witness ==
    /\ Returned
    /\ predicate = "counter"
    /\ input = Collection("generic", <<1, 0, -1>>)
    /\ x = input
    /\ Len(calls) = 3
    /\ thisArg.count = thisArg0.count + 3

\* C10: no validation and no recovery: when invoking the predicate fails at
\* index k (k = 0 for a predicate that is not callable, and then only for a
\* non-empty collection) the failure reaches the caller unchanged, no count
\* is returned and the predicate is not invoked for any index above k.
C10_FailurePropagates ==
    /\ [](/\ (\E j \in 1..Len(calls) : calls[j].threw) => pc = "threw"
          /\ (~IsCallable(predicate) /\ Length(input) > 0 /\ Finished) =>
                pc = "threw"
          /\ pc = "threw" =>
                /\ result = <<>>
                /\ error # "none"
                /\ i \in Indices(input)
                /\ \A j \in 1..Len(calls) : calls[j].index <= i
                /\ IF IsCallable(predicate)
                   THEN /\ calls # <<>>
                        /\ LET c == calls[Len(calls)]
                           IN /\ c.threw
                              /\ c.index = i
                              /\ error = Call(predicate, c.this, c.value,
                                              c.index, c.arr).err
                        /\ \A j \in 1..(Len(calls) - 1) : ~calls[j].threw
                   ELSE /\ calls = <<>>
                        /\ i = 0
                        /\ error = "TypeError")
    /\ [][pc = "threw" => (pc' = "call" /\ round' = round + 1)]_vars

C10_Witness ==
    /\ pc = "threw"
    /\ predicate = "throwsOnNegative"
    /\ input = Collection("generic", <<1, -1, 1>>)
    /\ i = 1
    /\ n = 1
    /\ Len(calls) = 2
    /\ error = "Error"
    /\ result = <<>>

C10_WitnessNotCallable ==
    /\ pc = "threw"
    /\ predicate = "notCallable"
    /\ get = "complex128"
    /\ Length(input) = 1
    /\ calls = <<>>
    /\ error = "TypeError"

InScan == pc \in {"indexed_loop", "accessors_loop", "done", "threw"}

\* one iteration of either loop was entered / the loop was left
Iterated == pc \in {"indexed_loop", "accessors_loop"} /\ pc' # "done"

LeftLoop == pc \in {"indexed_loop", "accessors_loop"} /\ pc' = "done"

\* the length is the one countIf was called with
LengthFixed == Length(x) = Length(input)

\* every invocation the scan of the input makes returns
AllReturn ==
    /\ IsCallable(predicate)
    /\ predicate # "pop"
    /\ \A k \in Indices(input) : ~Answer(k).threw

\* an iteration starts only below the current length, the loop is left
\* only at or above it
TestsCurrentLength ==
    /\ Iterated => i < Length(x)
    /\ LeftLoop => ~(i < Length(x))

\* C11 as stated: the scan keeps 0 <= count <= index <= length, the length
\* being the collection's current one.
C11_Original ==
    InScan => (0 <= n /\ n <= i /\ i <= Length(x))

\* C11 (amended): the index is compared with the current length before every
\* iteration and 0 <= count <= index always holds; while the length is the
\* one the call started with, index <= length holds too, and when moreover
\* every invocation returns, countIf terminates after exactly length
\* iterations, under both strategies.
C11_ScanInvariant ==
    /\ [](InScan => (0 <= n /\ n <= i))
    /\ []((InScan /\ LengthFixed) => i <= Length(x))
    /\ [][TestsCurrentLength]_vars
    /\ []((Finished /\ AllReturn) =>
            (pc = "done" /\ i = Length(input) /\ Len(calls) = Length(input)))
    /\ ((pc = "call" /\ AllReturn) ~> (pc = "done"))

\* both strategies ran exactly three iterations over a fixed length
C11_Witness ==
    /\ round = 2
    /\ Returned
    /\ AllReturn
    /\ x = input
    /\ input.buf = <<-1, 0, 1>>
    /\ predicate = "identity"
    /\ i = 3
    /\ n = 2
    /\ Len(calls) = 3
    /\ Len(first[1].calls) = 3

====
